---- MODULE Spec2Model ----
(***************************************************************************)
(* GenerateItemsEnum (src/src/lib/GenerateItemsEnum.ts): a generator object *)
(* that loads an items.json catalog and renders it as a C++ enum.  Strings  *)
(* are TLA+ strings, handled as sequences of one-character strings.         *)
(***************************************************************************)
EXTENDS Integers, Sequences, FiniteSets, TLC

(* ------------------------------ bounds -------------------------------- *)
\* longest catalog built from the collision pool
MaxItems == 3
\* longest raw name generated over Alphabet (used in one-record catalogs)
MaxNameLen == 3

(* --------------------------- character classes ------------------------ *)
Lower == "abcdefghijklmnopqrstuvwxyz"
Upper == "ABCDEFGHIJKLMNOPQRSTUVWXYZ"
Digits == "0123456789"

CharAt(s, k) == SubSeq(s, k, k)

LowerChars == {CharAt(Lower, k) : k \in 1..26}
UpperChars == {CharAt(Upper, k) : k \in 1..26}
DigitChars == {CharAt(Digits, k) : k \in 1..10}

\* String.prototype.trim strips white space and line terminators (those that
\* occur in the names of the model)
WhiteSpace == {" ", "\t", "\n", "\r"}

\* the complement of the class negated in SANITIZE_REGEX: A-Z a-z 0-9 _
WordChars == UpperChars \cup LowerChars \cup DigitChars \cup {"_"}

(* ------------------------------ static sets --------------------------- *)
INVALID_NAMES == {"", "0", "NULL", "NONE", "N"}

RESERVED_KEYWORDS ==
  { "AUTO", "BREAK", "CASE", "CHAR", "CONST", "CONTINUE", "DEFAULT", "DO", "DOUBLE", "ELSE",
    "ENUM", "EXTERN", "FLOAT", "FOR", "GOTO", "IF", "INT", "LONG", "REGISTER", "RETURN",
    "SHORT", "SIGNED", "SIZEOF", "STATIC", "STRUCT", "SWITCH", "TYPEDEF", "UNION", "UNSIGNED",
    "VOID", "VOLATILE", "WHILE",
    "ASM", "BOOL", "CATCH", "CLASS", "CONST_CAST", "DELETE", "DYNAMIC_CAST", "EXPLICIT",
    "EXPORT", "FALSE", "FRIEND", "INLINE", "MUTABLE", "NAMESPACE", "NEW", "OPERATOR",
    "PRIVATE", "PROTECTED", "PUBLIC", "REINTERPRET_CAST", "STATIC_CAST", "TEMPLATE", "THIS",
    "THROW", "TRUE", "TRY", "TYPEID", "TYPENAME", "USING", "VIRTUAL", "WCHAR_T",
    "ALIGNAS", "ALIGNOF", "CHAR16_T", "CHAR32_T", "CONSTEXPR", "DECLTYPE", "NOEXCEPT",
    "NULLPTR", "STATIC_ASSERT", "THREAD_LOCAL",
    "CONCEPT", "REQUIRES", "CO_AWAIT", "CO_RETURN", "CO_YIELD",
    "NULL", "DATE", "TIME" }

(* --------------------------- string primitives ------------------------ *)
RECURSIVE TrimStart(_)
TrimStart(s) ==
  IF s = "" THEN s
  ELSE IF Head(s) \in WhiteSpace THEN TrimStart(Tail(s)) ELSE s

RECURSIVE TrimEnd(_)
TrimEnd(s) ==
  IF s = "" THEN s
  ELSE IF CharAt(s, Len(s)) \in WhiteSpace
       THEN TrimEnd(SubSeq(s, 1, Len(s) - 1)) ELSE s

\* name.trim()
Trim(s) == TrimEnd(TrimStart(s))

\* the rest of s after its leading run of characters matched by [^A-Za-z0-9_]
RECURSIVE SkipRun(_)
SkipRun(s) ==
  IF s = "" THEN s
  ELSE IF Head(s) \in WordChars THEN s ELSE SkipRun(Tail(s))

\* mutant: the matched runs are removed instead of replaced
RECURSIVE ReplaceRunsRemoved(_)
ReplaceRunsRemoved(s) ==
  IF s = "" THEN s
  ELSE IF Head(s) \in WordChars
       THEN Head(s) \o ReplaceRunsRemoved(Tail(s))
       ELSE ReplaceRunsRemoved(SkipRun(s))

\* .replace(SANITIZE_REGEX, "_"): each maximal match of [^A-Za-z0-9_]+ becomes "_"
RECURSIVE ReplaceRuns(_)
ReplaceRuns(s) ==
  IF s = "" THEN s
  ELSE IF Head(s) \in WordChars
       THEN Head(s) \o ReplaceRuns(Tail(s))
       ELSE "_" \o ReplaceRuns(SkipRun(s))

ToUpperChar(c) ==
  IF c \in LowerChars
  THEN CharAt(Upper, CHOOSE k \in 1..26 : CharAt(Lower, k) = c)
  ELSE c

\* .toUpperCase(), applied to the output of the replace (word characters only)
RECURSIVE ToUpperCase(_)
ToUpperCase(s) ==
  IF s = "" THEN s ELSE ToUpperChar(Head(s)) \o ToUpperCase(Tail(s))

\* decimal rendering of an integer inside a template literal
RECURSIVE Decimal(_)
Decimal(n) ==
  IF n < 0 THEN "-" \o Decimal(-n)
  ELSE IF n < 10 THEN CharAt(Digits, n + 1)
  ELSE Decimal(n \div 10) \o CharAt(Digits, (n % 10) + 1)

\* " ".repeat(n), n >= 0
RECURSIVE Repeat(_, _)
Repeat(c, n) == IF n <= 0 THEN "" ELSE c \o Repeat(c, n - 1)

\* lines.join(sep); an empty array slot joins as the empty string
RECURSIVE Join(_, _)
Join(ls, sep) ==
  IF ls = <<>> THEN ""
  ELSE IF Len(ls) = 1 THEN Head(ls)
  ELSE Head(ls) \o sep \o Join(Tail(ls), sep)

EndsWith(s, suf) ==
  Len(s) >= Len(suf) /\ SubSeq(s, Len(s) - Len(suf) + 1, Len(s)) = suf

(* ----------------------------- the pipeline --------------------------- *)
\* line 89: item.name.trim().replace(regex, "_").toUpperCase()
Sanitize(name) == ToUpperCase(ReplaceRuns(Trim(name)))

\* mutant: the leading digit is left alone
LeadingDigitKept(s) == s

\* lines 92-94: charCodeAt(0) in 48..57 (NaN for the empty string)
LeadingDigit(s) ==
  IF s # "" /\ Head(s) \in DigitChars THEN "_" \o s ELSE s

\* mutant: the filter knows only the empty and the zero name
IsInvalidNameShortList(s) == s \in {"", "0"}

\* line 96: invalidNames.has(sanitized)
IsInvalidName(s) == s \in INVALID_NAMES

\* mutant: reserved words pass unchanged
KeywordGuardOff(s) == s

\* lines 99-101
KeywordGuard(s) == IF s \in RESERVED_KEYWORDS THEN s \o "_" ELSE s

\* the candidate that reaches the duplicate handling (lines 89-101)
Candidate(name) == KeywordGuard(LeadingDigit(Sanitize(name)))

\* lines 106-109: the while loop, entered with finalName and the next suffix
RECURSIVE ResolveFrom(_, _, _, _)
ResolveFrom(finalName, sanitized, suffix, used) ==
  IF finalName \in used
  THEN ResolveFrom(sanitized \o "_" \o Decimal(suffix), sanitized, suffix + 1, used)
  ELSE finalName

\* mutant: one alternative is generated and taken without testing it
ResolveNameOnce(sanitized, used) ==
  IF sanitized \in used THEN sanitized \o "_2" ELSE sanitized

\* mutant: the numbering starts at 1
ResolveNameFromOne(sanitized, used) == ResolveFrom(sanitized, sanitized, 1, used)

\* lines 104-109
ResolveName(sanitized, used) == ResolveFrom(sanitized, sanitized, 2, used)

\* line 112
FormatLine(indent, finalName, item_id) ==
  indent \o finalName \o " = " \o Decimal(item_id) \o ","

\* lines 116-118
Render(ls, n) == "enum eItems {\n" \o Join(SubSeq(ls, 1, n), "\n") \o "\n};\n"

(* ------------------------------- inputs ------------------------------- *)
\* a JSON null in the items array
NullItem == [null |-> TRUE]

Alphabet == {"i", "f", "N", "0", " ", "_", "é"}

RECURSIVE NamesUpTo(_)
NamesUpTo(n) ==
  IF n = 0 THEN {""}
  ELSE LET S == NamesUpTo(n - 1) IN S \cup {s \o c : s \in S, c \in Alphabet}

GenNames == NamesUpTo(MaxNameLen)

SingleIds == {-4}

SingleCatalogs ==
  {<<[item_id |-> id, name |-> n]>> : n \in GenNames, id \in SingleIds}

\* records that collide with each other, with generated suffixes and with
\* guarded keywords, and records that are dropped
PoolItems ==
  { [item_id |-> 2,  name |-> "a"],
    [item_id |-> 3,  name |-> "a_2"],
    [item_id |-> 7,  name |-> "for"],
    [item_id |-> 8,  name |-> "FOR_"],
    [item_id |-> 0,  name |-> "n"],
    NullItem }

RECURSIVE SeqsUpTo(_, _)
SeqsUpTo(S, n) ==
  IF n = 0 THEN {<<>>}
  ELSE LET T == SeqsUpTo(S, n - 1) IN T \cup {Append(t, e) : t \in T, e \in S}

PoolCatalogs == SeqsUpTo(PoolItems, MaxItems)

SampleCatalogs ==
  { << [item_id |-> 1, name |-> "Health Potion"], [item_id |-> 2, name |-> "0"],
       [item_id |-> 3, name |-> "class"], [item_id |-> 4, name |-> "Health-Potion"] >>,
    << [item_id |-> 5, name |-> "Potion!"], [item_id |-> 6, name |-> "Potion?"] >>,
    << [item_id |-> 5, name |-> "Potion"], [item_id |-> 6, name |-> "potion"] >>,
    << [item_id |-> 9, name |-> "Potion__2"], [item_id |-> 5, name |-> "Potion!"],
       [item_id |-> 6, name |-> "Potion?"] >>,
    << [item_id |-> 4, name |-> "potion"], [item_id |-> 5, name |-> "Potion!"],
       [item_id |-> 6, name |-> "Potion?"] >>,
    << [item_id |-> 10, name |-> "9mm"] >>,
    << [item_id |-> 11, name |-> "\tFoR \n"] >>,
    << [item_id |-> 11, name |-> "for"], [item_id |-> 12, name |-> "For"] >>,
    << [item_id |-> 13, name |-> " null"], [item_id |-> 14, name |-> "None"],
       [item_id |-> 16, name |-> "NULL_"], [item_id |-> 17, name |-> ""] >> }

Catalogs == PoolCatalogs \cup SingleCatalogs \cup SampleCatalogs

\* the files loadFromFile is pointed at: the catalog file, a file of another
\* type, a directory, a path that does not exist, a file that is not JSON
Paths == {"items.json", "items.txt", "assets.json", "missing.json", "broken.json"}

\* buildEnum's argument list: empty (the default applies) or one number
NoArg == <<>>
TabArgs == {NoArg, <<-1>>, <<0>>, <<2>>}

DefaultTabSize == 4

NotLoadedMsg == "Items data not loaded. Please load data before building enum."

(* -------------------------------- state ------------------------------- *)
VARIABLES
  disk,        \* the parsed content of items.json: an ItemsFile
  itemsData,   \* this.itemsData
  loadOk,      \* history: some loadFromFile call has returned normally
  pc,          \* "idle", or "loop" while buildEnum runs its for loop
  tabSize,     \* buildEnum's parameter
  i,           \* loop index
  lines,       \* the pre-allocated lines array
  lineIdx,
  usedNames,
  result       \* what the last call that returned a value or threw gave its caller

vars == <<disk, itemsData, loadOk, pc, tabSize, i, lines, lineIdx, usedNames, result>>

Null == [null |-> TRUE]

NoResult == [kind |-> "none"]
Thrown(msg) == [kind |-> "error", message |-> msg]
Returned(t, text) == [kind |-> "text", tabSize |-> t, text |-> text]

Init ==
  /\ disk \in {[items |-> c] : c \in Catalogs}
  /\ itemsData = Null
  /\ loadOk = FALSE
  /\ pc = "idle"
  /\ tabSize = DefaultTabSize
  /\ i = 0
  /\ lines = <<>>
  /\ lineIdx = 0
  /\ usedNames = {}
  /\ result = NoResult

(* ------------------------------ loadFromFile -------------------------- *)
\* what statSync / readFileSync / JSON.parse meet at each path
LoadFailure(path) ==
  IF ~EndsWith(path, ".json") THEN "Invalid file type. Expected a .json file"
  ELSE IF path = "missing.json" THEN "ENOENT"
  ELSE IF path = "assets.json" THEN "Not a valid file"
  ELSE IF path = "broken.json" THEN "SyntaxError"
  ELSE ""

loadFromFile(path) ==
  /\ pc = "idle"
  /\ IF LoadFailure(path) # ""
     THEN /\ result' = Thrown(LoadFailure(path))
          /\ UNCHANGED <<itemsData, loadOk>>
     ELSE /\ itemsData' = disk
          /\ loadOk' = TRUE
          /\ UNCHANGED result
  /\ UNCHANGED <<disk, pc, tabSize, i, lines, lineIdx, usedNames>>

(* -------------------------------- buildEnum --------------------------- *)
\* mutant: an empty items array counts as no data
NotLoadedOrEmpty(data) == data = Null \/ data.items = <<>>

\* line 66
NotLoaded(data) == data = Null

\* mutant: the set of the previous pass is reused
StaleUsedNames == usedNames

\* line 82
NewUsedNames == {}

\* lines 65-82: the guard, the locals
buildEnumBegin(arg) ==
  /\ pc = "idle"
  /\ LET t == IF arg = NoArg THEN DefaultTabSize ELSE arg[1] IN
     IF NotLoaded(itemsData)
     THEN /\ result' = Thrown(NotLoadedMsg)
          /\ UNCHANGED <<pc, tabSize, i, lines, lineIdx, usedNames>>
     ELSE IF t < 0
     THEN \* " ".repeat(tabSize) throws a RangeError
          /\ result' = Thrown("RangeError")
          /\ UNCHANGED <<pc, tabSize, i, lines, lineIdx, usedNames>>
     ELSE /\ pc' = "loop"
          /\ tabSize' = t
          /\ i' = 0
          /\ lines' = [k \in 1..Len(itemsData.items) |-> ""]
          /\ lineIdx' = 0
          /\ usedNames' = NewUsedNames
          /\ UNCHANGED result
  /\ UNCHANGED <<disk, itemsData, loadOk>>

\* mutant: the line is stored at the loop index
StoreLineAtLoopIndex(ls, idx, line) == [ls EXCEPT ![i + 1] = line]

\* line 112: lines[lineIdx++] = ...
StoreLine(ls, idx, line) == [ls EXCEPT ![idx + 1] = line]

\* lines 84-113: one iteration of the for loop
buildEnumIteration ==
  /\ pc = "loop"
  /\ i < Len(itemsData.items)
  /\ LET item == itemsData.items[i + 1]
         sanitized == LeadingDigit(Sanitize(item.name))
         guarded == KeywordGuard(sanitized)
         finalName == ResolveName(guarded, usedNames)
     IN IF item = NullItem \/ IsInvalidName(sanitized)
        THEN UNCHANGED <<lines, lineIdx, usedNames>>
        ELSE /\ usedNames' = usedNames \cup {finalName}
             /\ lines' = StoreLine(lines, lineIdx,
                                   FormatLine(Repeat(" ", tabSize), finalName, item.item_id))
             /\ lineIdx' = lineIdx + 1
  /\ i' = i + 1
  /\ UNCHANGED <<disk, itemsData, loadOk, pc, tabSize, result>>

\* lines 115-118
buildEnumReturn ==
  /\ pc = "loop"
  /\ i = Len(itemsData.items)
  /\ result' = Returned(tabSize, Render(lines, lineIdx))
  /\ pc' = "idle"
  /\ UNCHANGED <<disk, itemsData, loadOk, tabSize, i, lines, lineIdx, usedNames>>

Next ==
  \/ \E path \in Paths : loadFromFile(path)
  \/ \E arg \in TabArgs : buildEnumBegin(arg)
  \/ buildEnumIteration
  \/ buildEnumReturn

Spec == Init /\ [][Next]_vars

(* ------------------- reading the output back (for the claims) --------- *)
RECURSIVE SplitLines(_, _)
SplitLines(s, cur) ==
  IF s = "" THEN <<cur>>
  ELSE IF Head(s) = "\n" THEN <<cur>> \o SplitLines(Tail(s), "")
  ELSE SplitLines(Tail(s), cur \o Head(s))

\* the lines of the text between "enum eItems {" and "};", blank ones left out
EmittedLines(text) ==
  LET p == SplitLines(text, "")
  IN SelectSeq(SubSeq(p, 2, Len(p) - 2), LAMBDA l : l # "")

RECURSIVE DropSpaces(_)
DropSpaces(s) == IF s # "" /\ Head(s) = " " THEN DropSpaces(Tail(s)) ELSE s

RECURSIVE UpToSpace(_)
UpToSpace(s) == IF s = "" \/ Head(s) = " " THEN "" ELSE Head(s) \o UpToSpace(Tail(s))

\* <indent><identifier> = <value>,
LineIdent(l) == UpToSpace(DropSpaces(l))
LineValue(l) ==
  LET t == DropSpaces(l) IN SubSeq(t, Len(LineIdent(l)) + 4, Len(t) - 1)
LineIndent(l) == Len(l) - Len(DropSpaces(l))

Items == disk.items
Sentinels == {"", "0", "NULL", "NONE", "N"}
IsRecord(k) == Items[k] # NullItem
\* the four Sanitizer steps of a record's name
Sanitized(k) == LeadingDigit(Sanitize(Items[k].name))
Dropped(k) == IsRecord(k) /\ Sanitized(k) \in Sentinels
Survives(k) == IsRecord(k) /\ Sanitized(k) \notin Sentinels
\* the positions of the first n records that survive, in catalog order
RECURSIVE SurvivorsUpTo(_)
SurvivorsUpTo(n) ==
  IF n = 0 THEN <<>>
  ELSE IF Survives(n) THEN Append(SurvivorsUpTo(n - 1), n) ELSE SurvivorsUpTo(n - 1)
Survivors == SurvivorsUpTo(Len(Items))

\* buildEnum has returned a text and no later call is under way
HasText == pc = "idle" /\ result.kind = "text"
Out == EmittedLines(result.text)
OutIdents == [k \in 1..Len(Out) |-> LineIdent(Out[k])]

Cand(k) == Candidate(Items[k].name)
\* the line of record k: survivors are emitted in order, one line each
LineNo(k) == Len(SurvivorsUpTo(k))
IdentOf(k) == LineIdent(Out[LineNo(k)])
ValueOf(k) == LineValue(Out[LineNo(k)])
\* no surviving record before k has k's candidate
FirstWith(k) == \A j \in 1..(k - 1) : Survives(j) => Cand(j) # Cand(k)
\* no record before k was given the identifier id
FreeBefore(k, id) == \A j \in 1..(k - 1) : Survives(j) => IdentOf(j) # id
\* id is c followed by _m for a number m >= 2
Suffixed(id, c) == \E m \in 2..(Len(Items) + 1) : id = c \o "_" \o Decimal(m)

RECURSIVE AllIn(_, _)
AllIn(s, S) == s = "" \/ (Head(s) \in S /\ AllIn(Tail(s), S))

(* -------------------------------- claims ------------------------------ *)
\* C1: the identifiers on the lines of a returned text are pairwise distinct,
\* for every catalog, also when a name ending in _<number> meets a generated suffix.
C1_UniqueIdentifiers ==
  HasText => \A j, k \in 1..Len(Out) : j # k => LineIdent(Out[j]) # LineIdent(Out[k])

\* the name "a_2" comes first and the second "a" has to skip the suffix 2
C1_Witness ==
  HasText /\ OutIdents = <<"A_2", "A", "A_3">>

C3_ExampleClaim ==
  ( /\ HasText /\ result.tabSize = DefaultTabSize
    /\ Items = << [item_id |-> 1, name |-> "Health Potion"], [item_id |-> 2, name |-> "0"],
                  [item_id |-> 3, name |-> "class"], [item_id |-> 4, name |-> "Health-Potion"] >> )
  => result.text =
       "enum eItems {\n    HEALTH_POTION = 1,\n    CLASS_ = 3,\n    HEALTH_POTION_2 = 4,\n};\n"

\* C4: a record whose name sanitizes (the four Sanitizer steps) to a sentinel
\* adds no line: while the loop runs the number of lines stored is the number
\* of surviving records passed, and in the returned text the id of a dropped
\* record appears on no line (unless a surviving record carries the same id).
C4_SentinelDropped ==
  /\ pc = "loop" => lineIdx = Len(SurvivorsUpTo(i))
  /\ HasText =>
       /\ Len(Out) = Len(Survivors)
       /\ \A k \in DOMAIN Items :
            (Dropped(k) /\ \A j \in DOMAIN Items :
                             Survives(j) => Items[j].item_id # Items[k].item_id)
            => \A n \in 1..Len(Out) : LineValue(Out[n]) # Decimal(Items[k].item_id)

\* " null" and "None" are dropped, "NULL_" alone is emitted
C4_Witness ==
  /\ HasText /\ Len(Items) = 4
  /\ Dropped(1) /\ Sanitized(1) = "NULL" /\ Dropped(2) /\ Dropped(4)
  /\ OutIdents = <<"NULL_">>

\* C5 (as claimed): among the surviving records with one candidate, the
\* earliest is emitted with the bare candidate and every later one with the
\* candidate and a suffix _k, k >= 2.
C5_TieBreakClaim ==
  HasText =>
    \A k \in DOMAIN Items :
      Survives(k) =>
        IF FirstWith(k) THEN IdentOf(k) = Cand(k) ELSE Suffixed(IdentOf(k), Cand(k))

\* C5 (amended): the earliest record of a candidate is emitted with the bare
\* candidate unless that identifier was already given to an earlier record
\* (as the suffixed name of another candidate); then, and for every later
\* record of the candidate, the identifier is the candidate and _k, k >= 2.
C5_TieBreak ==
  HasText =>
    \A k \in DOMAIN Items :
      Survives(k) =>
        IF FirstWith(k) /\ FreeBefore(k, Cand(k))
        THEN IdentOf(k) = Cand(k)
        ELSE Suffixed(IdentOf(k), Cand(k))

\* "a_2" is the first record of its candidate, but A_2 went to the second "a"
C5_Witness ==
  HasText /\ OutIdents = <<"A", "A_2", "A_2_2">> /\ FirstWith(3)

\* C6: every identifier of a returned text is non-empty, made of A-Z, 0-9 and
\* _ only, does not begin with a digit and is not a reserved word; each line
\* has the form <indent><identifier> = <value>,
C6_ValidIdentifiers ==
  HasText =>
    \A n \in 1..Len(Out) :
      LET id == LineIdent(Out[n]) IN
        /\ id # ""
        /\ AllIn(id, UpperChars \cup DigitChars \cup {"_"})
        /\ Head(id) \notin DigitChars
        /\ id \notin RESERVED_KEYWORDS
        /\ Out[n] = Repeat(" ", result.tabSize) \o id \o " = " \o LineValue(Out[n]) \o ","

C6_Witness ==
  HasText /\ Items = << [item_id |-> 10, name |-> "9mm"] >> /\ OutIdents = <<"_9MM">>

\* C7 (as claimed): a surviving record whose sanitized name is reserved gets
\* one trailing underscore before the duplicate handling, and a record named
\* "for" (any case, any surrounding white space) is emitted as FOR_ = <id>.
C7_KeywordClaim ==
  HasText =>
    \A k \in DOMAIN Items :
      /\ (Survives(k) /\ Sanitized(k) \in RESERVED_KEYWORDS)
           => SubSeq(IdentOf(k), 1, Len(Sanitized(k)) + 1) = Sanitized(k) \o "_"
      /\ (IsRecord(k) /\ ToUpperCase(Trim(Items[k].name)) = "FOR")
           => /\ Sanitized(k) = "FOR"
              /\ Out[LineNo(k)] = Repeat(" ", result.tabSize) \o "FOR_ = "
                                    \o Decimal(Items[k].item_id) \o ","

\* C7 (amended): such a record is emitted as <reserved word>_ = <id>, a record
\* named "for" as FOR_ = <id>, unless an earlier record was already given that
\* identifier; then it is emitted with a further suffix _k, k >= 2.
C7_Keyword ==
  HasText =>
    \A k \in DOMAIN Items :
      /\ (IsRecord(k) /\ ToUpperCase(Trim(Items[k].name)) = "FOR") => Sanitized(k) = "FOR"
      /\ (Survives(k) /\ Sanitized(k) \in RESERVED_KEYWORDS)
           => /\ ValueOf(k) = Decimal(Items[k].item_id)
              /\ IF FreeBefore(k, Sanitized(k) \o "_")
                 THEN IdentOf(k) = Sanitized(k) \o "_"
                 ELSE Suffixed(IdentOf(k), Sanitized(k) \o "_")

C7_Witness ==
  /\ HasText /\ Items = << [item_id |-> 11, name |-> "\tFoR \n"] >>
  /\ result.text = "enum eItems {\n    FOR_ = 11,\n};\n"

\* C8: the returned text has one line per surviving record and no other line,
\* in catalog order, each with its record's id in decimal and an identifier
\* that starts with its record's candidate.
C8_OrderPreserved ==
  HasText =>
    /\ Len(Out) = Len(Survivors)
    /\ SplitLines(result.text, "") =
         <<"enum eItems {">> \o (IF Len(Out) = 0 THEN <<"">> ELSE Out) \o <<"};", "">>
    /\ \A n \in 1..Len(Out) :
         LET k == Survivors[n] IN
           /\ LineValue(Out[n]) = Decimal(Items[k].item_id)
           /\ SubSeq(LineIdent(Out[n]), 1, Len(Cand(k))) = Cand(k)

\* a dropped record stands between two surviving records
C8_Witness ==
  /\ HasText /\ Len(Items) = 3 /\ Survives(1) /\ Dropped(2) /\ Survives(3)
  /\ Len(Out) = 2

\* C9: a buildEnum call made before any load has returned normally throws
\* the not-loaded error and starts no pass; made after one, with an indent
\* >= 0, it starts a pass, whatever the catalog holds, and the pass returns a text.
C9_FailsOnlyUnloaded ==
  [][ /\ \A arg \in TabArgs :
           buildEnumBegin(arg) =>
             IF ~loadOk
             THEN result' = Thrown(NotLoadedMsg) /\ pc' = "idle"
             ELSE (arg = NoArg \/ arg[1] >= 0) => (pc' = "loop" /\ result' = result)
      /\ (pc = "loop" /\ pc' = "idle") => result'.kind = "text"
      /\ (pc = "loop" /\ i < Len(itemsData.items)) => (pc' = "loop" /\ i' = i + 1)
    ]_vars

\* every record of a loaded catalog was dropped, and a text came back
C9_Witness ==
  /\ HasText /\ loadOk /\ Len(Items) = 3 /\ Len(Survivors) = 0
  /\ result.text = "enum eItems {\n\n};\n"

\* C10: a pass that returns after an earlier pass over the same catalog with
\* the same indent returns the same text.
C10_SameOutputAgain ==
  [][ (pc = "loop" /\ pc' = "idle" /\ result.kind = "text" /\ result.tabSize = tabSize)
      => result'.text = result.text ]_vars

\* a second pass with suffixed names is about to return what the first returned
C10_Witness ==
  /\ pc = "loop" /\ i = Len(Items) /\ result.kind = "text" /\ result.tabSize = tabSize
  /\ Cardinality(usedNames) = 3 /\ lineIdx = 3
  /\ Cardinality({Cand(k) : k \in 1..3}) = 1
  /\ Render(lines, lineIdx) = result.text

====
